---- MODULE Spec2Model ----
(***************************************************************************)
(* Model of the MAX bot flow engine (src/max-bot/core): the per-user       *)
(* navigation stack, the flow handlers (static / extended_static /         *)
(* managed), the chat handler, the exit / hide / pagination callbacks, the *)
(* command handlers and the dispatch of messages and callbacks with the    *)
(* time-windowed callback deduplication of MaxBot._process_callback.       *)
(***************************************************************************)
EXTENDS Integers, Sequences, FiniteSets, TLC

(***************************************************************************)
(* Bounds of the exploration.                                              *)
(***************************************************************************)
\* longest flow_stack the environment lets a user build
MaxDepth == 4
\* longest card list the AI collaborator returns
MaxCards == 3

(***************************************************************************)
(* Program constants.                                                      *)
(***************************************************************************)
DeduplicationWindowMs == 2000
PruneAgeMs == 10000
EMPTY_INT == -1
TopKPaginated == 10
TopKSingle == 1

EMPTY_STR == ""
\* Python's None in an optional string field
None == "None"

(***************************************************************************)
(* The configuration document (configs/flow.json after reference           *)
(* resolution): a tree of flows.  The tree below has a flow of every kind  *)
(* at the root and nested, privileged and not, and a root flow that bears  *)
(* the name of a specialized callback.                                     *)
(***************************************************************************)
RootFlows == <<"Info", "Catalog", "Ask", "hide_callback">>

FlowNames == {"Info", "Catalog", "Ask", "Search", "Sub", "Leaf", "hide_callback"}

\* flow["flows"] of the flows that have the key
ChildFlows(f) ==
    CASE f = "Catalog" -> <<"Search", "Sub">>
      [] f = "Sub" -> <<"Leaf">>
      [] OTHER -> <<>>

HasFlowsKey(f) == f \in {"Catalog", "Sub"}

FlowType(f) ==
    CASE f \in {"Info", "Leaf", "hide_callback"} -> "static"
      [] f \in {"Catalog", "Sub"} -> "extended_static"
      [] OTHER -> "managed"

FlowPrivileged(f) == f \in {"Ask", "Sub", "Leaf"}

FlowPhoto(f) == f = "Info"

FlowSearchType(f) ==
    CASE f = "Search" -> "products"
      [] f = "Ask" -> "companies"
      [] OTHER -> "questions"

FlowUsePagination(f) == f = "Search"

\* buttons section of the configuration
\* buttons["exit"]["name"], the key of special_buttons in build_keyboard
ExitButtonName == "Back"
ExitButton == [text |-> ExitButtonName, payload |-> "exit_callback"]
PreviousButton == [text |-> "previous", payload |-> "previous_callback"]
NextButton == [text |-> "next", payload |-> "next_callback"]
AcceptButton == [text |-> "accept", payload |-> "accept_callback"]
InactiveButton == [text |-> "inactive", payload |-> "inactive_callback"]

(***************************************************************************)
(* Sequence helpers.                                                       *)
(***************************************************************************)
Last(s) == s[Len(s)]

ButLast(s) == SubSeq(s, 1, Len(s) - 1)

InSeq(x, s) == \E i \in 1..Len(s) : s[i] = x

RECURSIVE FilterButtons(_, _)
FilterButtons(buttons, vip_status) ==
    IF buttons = <<>> THEN <<>>
    ELSE LET b == Head(buttons)
             rest == FilterButtons(Tail(buttons), vip_status)
         IN IF b.privileged /\ ~vip_status THEN rest
            ELSE <<b>> \o rest

(***************************************************************************)
(* Flow tree builder: menus, managed flows, nesting.                       *)
(***************************************************************************)
\* Button(name, privileged) for every flow of a list, in configuration order
MenuOf(flows) ==
    [i \in 1..Len(flows) |-> [name |-> flows[i], privileged |-> FlowPrivileged(flows[i])]]

\* get_menus: "main" and every flow that has a "flows" key
MenuKeys == {"main"} \cup {f \in FlowNames : HasFlowsKey(f)}

Menus(key) == IF key = "main" THEN MenuOf(RootFlows) ELSE MenuOf(ChildFlows(key))

\* self.menus.get(key, [])
MenusGet(key) == IF key \in MenuKeys THEN Menus(key) ELSE <<>>

ButtonNames(key) == {MenusGet(key)[i].name : i \in 1..Len(MenusGet(key))}

\* get_managed_flows
ManagedFlows == {f \in FlowNames : FlowType(f) = "managed"}

\* the flow whose "flows" list holds f, "main" for a root flow
ParentName(f) ==
    IF \E p \in FlowNames : InSeq(f, ChildFlows(p))
    THEN CHOOSE p \in FlowNames : InSeq(f, ChildFlows(p))
    ELSE "main"

\* _process_flow marks the children; _add_flow_handler marks every managed flow
IsNested(f) == ParentName(f) # "main" \/ FlowType(f) = "managed"

(***************************************************************************)
(* Keyboards.  A markup is present or None; a present markup is a list of  *)
(* rows of buttons.                                                        *)
(***************************************************************************)
NoMarkup == [present |-> FALSE, rows |-> <<>>]

\* build_keyboard: one row per button the user may see
BuildKeyboard(buttons, vip_status) ==
    LET shown == FilterButtons(buttons, vip_status)
    IN [present |-> TRUE,
        rows |-> [i \in 1..Len(shown) |->
                    <<[text |-> shown[i].name,
                       payload |-> IF shown[i].name = ExitButtonName
                                   THEN "exit_callback" ELSE shown[i].name]>>]]

\* build_inline_keyboard on a matrix of buttons; empty rows are dropped
BuildInlineKeyboard(rows) ==
    [present |-> TRUE, rows |-> SelectSeq(rows, LAMBDA r : r # <<>>)]

(***************************************************************************)
(* Cards, message contents and platform calls.                             *)
(***************************************************************************)
\* cards_json: None or a list of cards
NoCards == [none |-> TRUE, items |-> <<>>]

CardsOf(items) == [none |-> FALSE, items |-> items]

\* Python truthiness of an optional list
Truthy(c) == ~c.none /\ Len(c.items) > 0

\* list[i] as Python indexes it: a negative index counts from the end
PyIndexOk(items, i) == i < Len(items) /\ i >= 0 - Len(items)

PyIndex(items, i) == IF i >= 0 THEN items[i + 1] ELSE items[Len(items) + i + 1]

Content(tag) == [tag |-> tag, card |-> 0, page |-> 0, total |-> 0]

\* card_from_json: the header shows current_page + 1 of total_pages + 1
card_from_json(card, current_page, total_pages) ==
    [tag |-> "card", card |-> card, page |-> current_page + 1, total |-> total_pages + 1]

Call(op, content, markup, message_id, ok) ==
    [op |-> op, content |-> content, markup |-> markup,
     message_id |-> message_id, ok |-> ok]

\* the calls of a list that deliver a new message to the user
SendOps == {"send_message", "send_photo"}

\* a response of the AI server without the key "answer"
AnswerAbsent == "<absent>"

\* the empty object the AI client returns when the feature is disabled
EmptyResponse == [answer |-> AnswerAbsent, cards |-> NoCards, product_cards |-> NoCards]

\* no call of the AI server
NoRequest ==
    [called |-> FALSE, search_type |-> "", top_k |-> 0, database_name |-> "",
     answered |-> FALSE, response |-> EmptyResponse]

\* a call of the AI server: the request, whether post_request returned, and
\* the response it returned
Exchange(req, ai_ok, response) ==
    [called |-> req.called, search_type |-> req.search_type, top_k |-> req.top_k,
     database_name |-> req.database_name,
     answered |-> ai_ok, response |-> IF ai_ok THEN response ELSE EmptyResponse]

(***************************************************************************)
(* Configuration loader (core/utils.py).  A string of the configuration    *)
(* document is a sequence of characters; a value of the document is a      *)
(* string, a dict from strings to values or a list of values.              *)
(***************************************************************************)
StrButtons == <<"b", "u", "t", "t", "o", "n", "s">>
StrExit == <<"e", "x", "i", "t">>
StrContent == <<"c", "o", "n", "t", "e", "n", "t">>
StrName == <<"n", "a", "m", "e">>
StrCommands == <<"c", "o", "m", "m", "a", "n", "d", "s">>
StrStart == <<"s", "t", "a", "r", "t">>
StrBack == <<"B", "a", "c", "k">>
StrBye == <<"b", "y", "e">>
StrOther == <<"o", "t", "h", "e", "r">>

StrValue(s) == [kind |-> "str", s |-> s, d |-> <<>>]
DictValue(d) == [kind |-> "dict", s |-> <<>>, d |-> d]
ListValue(items) == [kind |-> "list", s |-> <<>>, d |-> items]

\* the ValueError that aborts the load
ValueError == [kind |-> "ValueError", s |-> <<>>, d |-> <<>>]

\* str.split("."): the parts between the dots, empty ones included
RECURSIVE Split(_)
Split(s) ==
    IF s = <<>> THEN << <<>> >>
    ELSE LET rest == Split(Tail(s))
         IN IF Head(s) = "." THEN << <<>> >> \o rest
            ELSE << <<Head(s)>> \o Head(rest) >> \o Tail(rest)

\* "@" and the parts joined by dots
Reference(parts) ==
    LET RECURSIVE Join(_)
        Join(ps) == IF Len(ps) = 1 THEN ps[1]
                    ELSE ps[1] \o <<".">> \o Join(Tail(ps))
    IN <<"@">> \o Join(parts)

\* lines 48-57: every further part indexes the resolved value one level deeper
RECURSIVE Descend(_, _)
Descend(resolved, subkeys) ==
    IF subkeys = <<>> THEN resolved
    ELSE IF resolved.kind = "dict" /\ Head(subkeys) \in DOMAIN resolved.d
    THEN Descend(resolved.d[Head(subkeys)], Tail(subkeys))
    ELSE ValueError

\* the first part names the section the reference is looked up in
ResolveString_SectionFirst(data, context) ==
    LET parts == Split(Tail(data))
    IN IF context.kind # "dict" \/ parts[1] \notin DOMAIN context.d
       THEN ValueError
       ELSE Descend(context.d[parts[1]], Tail(parts))

\* lines 37-59: a string that starts with "@" is looked up in the buttons
\* section of the context
ResolveString(data, context) ==
    LET reference == Tail(data)
        parts == Split(reference)
        base_key == parts[1]
    IN IF \/ context.kind # "dict"
          \/ StrButtons \notin DOMAIN context.d
          \/ context.d[StrButtons].kind # "dict"
          \/ base_key \notin DOMAIN context.d[StrButtons].d
       THEN ValueError
       ELSE Descend(context.d[StrButtons].d[base_key], Tail(parts))

\* resolve_references: dicts and lists are walked, a ValueError leaves the
\* whole walk
RECURSIVE resolve_references(_, _)
resolve_references(data, context) ==
    CASE data.kind = "dict" ->
            LET r == [k \in DOMAIN data.d |-> resolve_references(data.d[k], context)]
            IN IF \E k \in DOMAIN r : r[k] = ValueError THEN ValueError
               ELSE DictValue(r)
      [] data.kind = "list" ->
            LET r == [i \in DOMAIN data.d |-> resolve_references(data.d[i], context)]
            IN IF \E i \in DOMAIN r : r[i] = ValueError THEN ValueError
               ELSE ListValue(r)
      [] data.kind = "str" /\ data.s # <<>> /\ data.s[1] = "@" ->
            ResolveString(data.s, context)
      [] OTHER -> data

\* load_json_with_references
load_json_with_references(document) == resolve_references(document, document)

(***************************************************************************)
(* Handler registration (MaxBot._register_handlers): the walk of the flow  *)
(* tree.  A flow of the tree is its name, its type, whether it has the key *)
(* "flows" and the flows under that key.                                   *)
(***************************************************************************)
\* the handler _add_flow_handler registers keeps the flag it was given
AddFlowHandler_KeepsFlag(flow_config, is_nested, parent_name) ==
    IF flow_config.type \in {"static", "extended_static", "managed"}
    THEN <<[name |-> flow_config.name, type |-> flow_config.type,
            is_nested |-> is_nested, parent_name |-> parent_name]>>
    ELSE <<>>

\* _add_flow_handler with BaseHandler.__init__: the handler registered for a
\* flow, none for a flow of an unknown type
AddFlowHandler(flow_config, is_nested, parent_name) ==
    CASE flow_config.type \in {"static", "extended_static"} ->
            <<[name |-> flow_config.name, type |-> flow_config.type,
               is_nested |-> is_nested, parent_name |-> parent_name]>>
      [] flow_config.type = "managed" ->
            <<[name |-> flow_config.name, type |-> flow_config.type,
               is_nested |-> TRUE, parent_name |-> parent_name]>>
      [] OTHER -> <<>>

\* _process_flow: the children are marked and walked, then the flow itself
\* is registered
RECURSIVE ProcessFlow(_, _, _)
ProcessFlow(flow, is_nested, parent_name) ==
    LET RECURSIVE Nested(_)
        Nested(i) == IF i > Len(flow.flows) THEN <<>>
                     ELSE ProcessFlow(flow.flows[i], TRUE, flow.name) \o Nested(i + 1)
    IN (IF flow.has_flows THEN Nested(1) ELSE <<>>)
         \o AddFlowHandler(flow, is_nested, parent_name)

\* _register_handlers, lines 57-58: the flows of the root list in order
RegisterFlows(flows) ==
    LET RECURSIVE Walk(_)
        Walk(i) == IF i > Len(flows) THEN <<>>
                   ELSE ProcessFlow(flows[i], FALSE, "main") \o Walk(i + 1)
    IN Walk(1)

\* the flow tree of the configuration, the types of some flows replaced
RECURSIVE FlowNode(_, _)
FlowNode(f, types) ==
    [name |-> f,
     type |-> IF f \in DOMAIN types THEN types[f] ELSE FlowType(f),
     has_flows |-> HasFlowsKey(f),
     flows |-> [i \in 1..Len(ChildFlows(f)) |-> FlowNode(ChildFlows(f)[i], types)]]

FlowTree(types) == [i \in 1..Len(RootFlows) |-> FlowNode(RootFlows[i], types)]

\* bot_config["flows"]
ConfigFlows == FlowTree(<<>>)

\* the buttons section: the exit button with its name and content
ConfigButtons ==
    DictValue(StrExit :> DictValue(StrName :> StrValue(StrBack)
                                     @@ StrContent :> StrValue(StrBye)))

\* a configuration document: its buttons section and a command whose
\* content is the given string
Document(buttons, content) ==
    DictValue(StrButtons :> buttons
                @@ StrCommands :> DictValue(StrStart :> DictValue(StrContent :> StrValue(content))))

\* MaxBot.__init__ done: the configuration loaded, the handlers registered
Started ==
    [pc |-> "registered",
     document |-> Document(ConfigButtons, Reference(<<StrExit, StrContent>>)),
     flows |-> ConfigFlows,
     config |-> load_json_with_references(
                    Document(ConfigButtons, Reference(<<StrExit, StrContent>>))),
     handlers |-> RegisterFlows(ConfigFlows)]

(***************************************************************************)
(* The state: DBUserState per user, the user's VIP flag, the dedup cache   *)
(* of MaxBot, and what the last event did (the platform calls it made, the *)
(* AI request it sent and the response it got, the handler it reached);    *)
(* tasks holds the webhook deliveries in flight, each with the position of *)
(* its process_update; startup holds the position of MaxBot.__init__, the  *)
(* configuration document and flow tree it reads, the configuration it     *)
(* loaded and the handlers it registered.                                  *)
(***************************************************************************)
VARIABLES state, is_vip, processed_callbacks, out, ai_request, ev, tasks, startup

vars == <<state, is_vip, processed_callbacks, out, ai_request, ev, tasks, startup>>

Users == {"alice", "bob"}

\* DBUserState defaults
DefaultState ==
    [use_pagination |-> FALSE,
     flow_stack |-> <<"main">>,
     search_type |-> EMPTY_STR,
     callback_message_id |-> None,
     callback_message_inline_markup |-> NoMarkup,
     callback_message_need_to_delete |-> FALSE,
     cards_json |-> NoCards,
     cards_current_page |-> EMPTY_INT,
     cards_total_length |-> EMPTY_INT]

NoEvent ==
    [kind |-> "none", user |-> "", text |-> "", ts |-> 0, has_user_id |-> FALSE,
     handler |-> "none", result |-> "none"]

\* a handler's outcome: the user state it leaves, the platform calls it made,
\* the AI request it sent and how it ended
Result(st, calls, req, status) ==
    [st |-> st, calls |-> calls, req |-> req, status |-> status]

(***************************************************************************)
(* Validation shared by the flow handlers (core/base.py).                  *)
(***************************************************************************)
\* mutant: the privilege of the flow is not checked
ValidateUser_Anyone(f, vip) == TRUE

\* BaseHandler.validate_user; the user record always exists here because
\* process_update creates it before dispatching
ValidateUser(f, vip) == ~(FlowPrivileged(f) /\ ~vip)

\* mutant: a nested flow is accepted whatever the menu of the current flow
ValidateFlow_NoMenuCheck(f, st) ==
    LET user_current_flow == Last(st.flow_stack)
    IN IF user_current_flow = f THEN TRUE
       ELSE IF IsNested(f) THEN TRUE
       ELSE user_current_flow = "main"

\* BaseHandler.validate_flow of the handler of flow f on a user state
ValidateFlow(f, st) ==
    LET user_current_flow == Last(st.flow_stack)
    IN IF user_current_flow = f THEN TRUE
       ELSE IF IsNested(f) THEN f \in ButtonNames(user_current_flow)
       ELSE user_current_flow = "main"

\* BaseResponse._send_message: the send is tried and a failure is swallowed
SendCall(f_photo, content, markup, send_result) ==
    Call(IF f_photo THEN "send_photo" ELSE "send_message", content, markup,
         send_result, send_result # "fail")

(***************************************************************************)
(* Command handlers (core/commands.py).                                    *)
(***************************************************************************)
\* the main menu with every button, whoever asks
MainMenuKeyboard_Unfiltered(vip) == BuildKeyboard(Menus("main"), TRUE)

MainMenuKeyboard(vip) == BuildKeyboard(Menus("main"), vip)

StartCommand(st, vip, send_result) ==
    LET st1 == [st EXCEPT !.flow_stack = <<"main">>,
                          !.use_pagination = FALSE,
                          !.search_type = "",
                          !.cards_json = NoCards]
    IN Result(st1,
              <<SendCall(FALSE, Content("start"), MainMenuKeyboard(vip), send_result)>>,
              NoRequest, "ok")

ResetCommand(st, vip, send_result) ==
    LET st1 == [st EXCEPT !.flow_stack = <<"main">>,
                          !.use_pagination = FALSE,
                          !.search_type = "",
                          !.cards_json = NoCards,
                          !.callback_message_id = None]
    IN Result(st1,
              <<SendCall(FALSE, Content("reset"), MainMenuKeyboard(vip), send_result)>>,
              NoRequest, "ok")

(***************************************************************************)
(* Flow handlers (core/handlers.py).                                       *)
(***************************************************************************)
\* StaticHandler.__call__: shows the content, leaves the navigation alone
StaticHandler(f, st, vip, send_result) ==
    IF ~ValidateUser(f, vip) THEN Result(st, <<>>, NoRequest, "not_allowed")
    ELSE Result(st,
                <<SendCall(FlowPhoto(f), Content(f), NoMarkup, send_result)>>,
                NoRequest, "ok")

\* ExtendedStaticHandler.__init__: a nested flow gets the exit button below
ExtendedKeyboard(f, vip) ==
    IF IsNested(f)
    THEN BuildKeyboard(Menus(f) \o <<[name |-> ExitButtonName, privileged |-> FALSE]>>, vip)
    ELSE BuildKeyboard(Menus(f), vip)

\* ExtendedStaticHandler.__call__ lines 135-138: a root flow resets the stack
ResetRootStack(f, st) ==
    IF ~IsNested(f) THEN [st EXCEPT !.flow_stack = <<"main">>] ELSE st

\* ExtendedStaticHandler.__call__
ExtendedStaticHandler(f, st, vip, send_result) ==
    IF ~ValidateUser(f, vip) THEN Result(st, <<>>, NoRequest, "not_allowed")
    ELSE LET st1 == ResetRootStack(f, st)
         IN IF ~ValidateFlow(f, st1) THEN Result(st1, <<>>, NoRequest, "flow_invalid")
            ELSE Result([st1 EXCEPT !.flow_stack = Append(st1.flow_stack, f)],
                        <<SendCall(FlowPhoto(f), Content(f), ExtendedKeyboard(f, vip),
                                   send_result)>>,
                        NoRequest, "ok")

\* mutant: the flow is not pushed
ManagedEnter_NoPush(f, st) ==
    [st EXCEPT !.search_type = FlowSearchType(f),
               !.use_pagination = FlowUsePagination(f)]

\* mutant: entering also drops the cards
ManagedEnter_ClearsCards(f, st) ==
    [st EXCEPT !.search_type = FlowSearchType(f),
               !.flow_stack = Append(st.flow_stack, f),
               !.use_pagination = FlowUsePagination(f),
               !.cards_json = NoCards]

\* ManagedHandler.__call__ lines 206-208: the state a valid entry leaves
ManagedEnter(f, st) ==
    [st EXCEPT !.search_type = FlowSearchType(f),
               !.flow_stack = Append(st.flow_stack, f),
               !.use_pagination = FlowUsePagination(f)]

\* ManagedHandler.__call__
ManagedHandler(f, st, vip, send_result) ==
    IF ~ValidateUser(f, vip) THEN Result(st, <<>>, NoRequest, "not_allowed")
    ELSE IF ~ValidateFlow(f, st) THEN Result(st, <<>>, NoRequest, "flow_invalid")
    ELSE Result(ManagedEnter(f, st),
                <<SendCall(FlowPhoto(f), Content(f), NoMarkup, send_result)>>,
                NoRequest, "ok")

\* MaxBot._add_flow_handler: the handler class by flow type
FlowHandler(f, st, vip, send_result) ==
    CASE FlowType(f) = "static" -> StaticHandler(f, st, vip, send_result)
      [] FlowType(f) = "extended_static" -> ExtendedStaticHandler(f, st, vip, send_result)
      [] OTHER -> ManagedHandler(f, st, vip, send_result)

(***************************************************************************)
(* Callback handlers (core/callbacks.py).                                  *)
(***************************************************************************)
\* mutant: the pop is guarded by a non-empty stack only
ExitPop_PopsMain(st) ==
    [st EXCEPT !.flow_stack = IF Len(st.flow_stack) > 0 THEN ButLast(st.flow_stack)
                              ELSE st.flow_stack,
               !.use_pagination = FALSE,
               !.search_type = "",
               !.cards_json = NoCards]

\* mutant: the cards survive the exit
ExitPop_KeepsCards(st) ==
    [st EXCEPT !.flow_stack = IF Len(st.flow_stack) > 1 THEN ButLast(st.flow_stack)
                              ELSE st.flow_stack,
               !.use_pagination = FALSE,
               !.search_type = ""]

\* ExitCallback.__call__ lines 62-69: pop one level, clear the search state
ExitPop(st) ==
    [st EXCEPT !.flow_stack = IF Len(st.flow_stack) > 1 THEN ButLast(st.flow_stack)
                              ELSE st.flow_stack,
               !.use_pagination = FALSE,
               !.search_type = "",
               !.cards_json = NoCards]

\* a failed send of the menu leaves the state as it was before the pop
ExitCallback_FailedSendKeepsState(st, vip, send_result) ==
    LET st1 == ExitPop(st)
        current_flow_name == IF st1.flow_stack # <<>> THEN Last(st1.flow_stack)
                             ELSE "main"
    IN IF current_flow_name \in MenuKeys
       THEN Result(IF send_result = "fail" THEN st ELSE st1,
                   <<Call("send_message", Content("exit"),
                          BuildKeyboard(Menus(current_flow_name), vip),
                          send_result, send_result # "fail")>>,
                   NoRequest,
                   IF send_result = "fail" THEN "exception" ELSE "ok")
       ELSE Result(st1, <<>>, NoRequest, "ok")

\* ExitCallback.__call__: the menu of the flow the user is back in is sent
\* with client.send_message, whose failure is not caught here
ExitCallback(st, vip, send_result) ==
    LET st1 == ExitPop(st)
        current_flow_name == IF st1.flow_stack # <<>> THEN Last(st1.flow_stack)
                             ELSE "main"
    IN IF current_flow_name \in MenuKeys
       THEN Result(st1,
                   <<Call("send_message", Content("exit"),
                          BuildKeyboard(Menus(current_flow_name), vip),
                          send_result, send_result # "fail")>>,
                   NoRequest,
                   IF send_result = "fail" THEN "exception" ELSE "ok")
       ELSE Result(st1, <<>>, NoRequest, "ok")

\* HideMessageCallback.__call__: deletes the message the button sits on
HideMessageCallback(st, message_id, edit_ok) ==
    Result(st, <<Call("delete_message", Content(""), NoMarkup, message_id, edit_ok)>>,
           NoRequest, IF edit_ok THEN "ok" ELSE "exception")

\* mutant: next is not clamped at the last page
TurnPage_NextUnclamped(callback_data, st) ==
    CASE callback_data = "previous_callback" /\ st.cards_current_page > 0 ->
            [st EXCEPT !.cards_current_page = @ - 1]
      [] callback_data = "next_callback" ->
            [st EXCEPT !.cards_current_page = @ + 1]
      [] OTHER -> st

\* mutant: previous is not clamped at the first page
TurnPage_PreviousUnclamped(callback_data, st) ==
    CASE callback_data = "previous_callback" ->
            [st EXCEPT !.cards_current_page = @ - 1]
      [] callback_data = "next_callback"
           /\ st.cards_current_page < st.cards_total_length - 1 ->
            [st EXCEPT !.cards_current_page = @ + 1]
      [] OTHER -> st

\* PaginationCallback.__call__ lines 185-191: the page after the callback
\* the accept callback turns the page like the next callback
TurnPage_AcceptAdvances(callback_data, st) ==
    CASE callback_data = "previous_callback" /\ st.cards_current_page > 0 ->
            [st EXCEPT !.cards_current_page = @ - 1]
      [] callback_data \in {"next_callback", "accept_callback"}
           /\ st.cards_current_page < st.cards_total_length - 1 ->
            [st EXCEPT !.cards_current_page = @ + 1]
      [] OTHER -> st

TurnPage(callback_data, st) ==
    CASE callback_data = "previous_callback" /\ st.cards_current_page > 0 ->
            [st EXCEPT !.cards_current_page = @ - 1]
      [] callback_data = "next_callback"
           /\ st.cards_current_page < st.cards_total_length - 1 ->
            [st EXCEPT !.cards_current_page = @ + 1]
      [] OTHER -> st

\* mutant: the next button is shown on the last page too
PaginationKeyboard_AlwaysNext(st) ==
    BuildInlineKeyboard(
        << <<IF st.cards_current_page > 0 THEN PreviousButton ELSE InactiveButton,
             AcceptButton,
             NextButton>>,
           <<ExitButton>> >>)

\* PaginationCallback.__call__ lines 222-236: the keyboard of a page
PaginationKeyboard(st) ==
    BuildInlineKeyboard(
        << <<IF st.cards_current_page > 0 THEN PreviousButton ELSE InactiveButton,
             AcceptButton,
             IF st.cards_current_page < st.cards_total_length - 1
             THEN NextButton ELSE InactiveButton>>,
           <<ExitButton>> >>)

\* PaginationCallback.__call__; the normalized update carries no callback
\* id, so answer_callback_query is never reached
PaginationCallback(callback_data, st, message_id, edit_ok) ==
    IF ~Truthy(st.cards_json) THEN Result(st, <<>>, NoRequest, "no_cards")
    ELSE IF callback_data = "inactive_callback" THEN Result(st, <<>>, NoRequest, "ok")
    ELSE LET st1 == TurnPage(callback_data, st)
         IN IF ~PyIndexOk(st1.cards_json.items, st1.cards_current_page)
            THEN Result(st1, <<>>, NoRequest, "exception")
            ELSE Result(st1,
                        <<Call("edit_markup", Content(""), PaginationKeyboard(st1),
                               message_id, edit_ok)>>,
                        NoRequest, IF edit_ok THEN "ok" ELSE "exception")

(***************************************************************************)
(* Chat handler (core/handlers.py, ChatHandler).                           *)
(***************************************************************************)
\* values of response["answer"]: the key absent, null, or a string
YaRuAnswer == "https://ya.ru"

AnswerTruthy(a) == a \notin {AnswerAbsent, None, ""}

\* the marker is pushed whenever the top is no managed flow
PushMarker_OnMarker(st) ==
    LET user_current_flow == Last(st.flow_stack)
    IN IF user_current_flow \notin ManagedFlows
       THEN [st EXCEPT !.use_pagination = FALSE,
                       !.search_type = "questions",
                       !.flow_stack = Append(st.flow_stack, EMPTY_STR)]
       ELSE st

\* the marker is pushed and the search type left as it was
PushMarker_KeepsSearchType(st) ==
    LET user_current_flow == Last(st.flow_stack)
    IN IF user_current_flow \notin ManagedFlows /\ user_current_flow # EMPTY_STR
       THEN [st EXCEPT !.use_pagination = FALSE,
                       !.flow_stack = Append(st.flow_stack, EMPTY_STR)]
       ELSE st

\* lines 262-269: outside a managed flow the free-text marker is pushed
PushMarker(st) ==
    LET user_current_flow == Last(st.flow_stack)
    IN IF user_current_flow \notin ManagedFlows /\ user_current_flow # EMPTY_STR
       THEN [st EXCEPT !.use_pagination = FALSE,
                       !.search_type = "questions",
                       !.flow_stack = Append(st.flow_stack, EMPTY_STR)]
       ELSE st

\* every search type is sent to the question database
AiRequest_AlwaysFaq(st) ==
    [called |-> TRUE,
     search_type |-> "gpt",
     top_k |-> IF st.use_pagination THEN TopKPaginated ELSE TopKSingle,
     database_name |-> "faq"]

\* lines 274-289: the request sent to the AI server
AiRequest(st) ==
    [called |-> TRUE,
     search_type |-> IF st.search_type \in {"companies", "products"}
                     THEN "semfuz" ELSE "gpt",
     top_k |-> IF st.use_pagination THEN TopKPaginated ELSE TopKSingle,
     database_name |-> CASE st.search_type = "companies" -> "cmp"
                         [] st.search_type = "products" -> "prdcts"
                         [] OTHER -> "faq"]

\* lines 294-323: the state and the content the response leads to; content
\* "<raise>" stands for the IndexError / TypeError the branch ends in
Interpret(st, response) ==
    IF AnswerTruthy(response.answer) \/ Truthy(response.cards)
         \/ Truthy(response.product_cards)
    THEN IF st.use_pagination
         THEN LET cards == IF ~response.cards.none THEN response.cards
                           ELSE response.product_cards
              IN IF ~cards.none
                 THEN LET st1 == [st EXCEPT !.cards_json = cards,
                                            !.cards_current_page = 0,
                                            !.cards_total_length = Len(cards.items)]
                      IN IF Len(cards.items) = 0
                         THEN [st |-> st1, content |-> Content("<raise>")]
                         ELSE [st |-> st1,
                               content |-> card_from_json(cards.items[1], 0,
                                                          Len(cards.items) - 1)]
                 ELSE [st |-> st, content |-> Content("query_not_found")]
         ELSE [st |-> st,
               content |-> CASE response.answer = AnswerAbsent -> Content("query_not_found")
                             [] response.answer = None -> Content("<raise>")
                             [] response.answer = YaRuAnswer -> Content("no_information")
                             [] OTHER -> Content(response.answer)]
    ELSE [st |-> [st EXCEPT !.cards_json = NoCards],
          content |-> Content("query_not_found")]

\* BaseChatHandler.__init__: the two keyboards of a chat reply
ChatKeyboard(with_pagination) ==
    IF with_pagination
    THEN BuildInlineKeyboard(<< <<InactiveButton, AcceptButton, NextButton>>,
                                <<ExitButton>> >>)
    ELSE BuildInlineKeyboard(<< <<ExitButton>> >>)

\* lines 330-338
ChatMarkup(st) ==
    ChatKeyboard(st.use_pagination /\ ~st.cards_json.none /\ st.cards_total_length > 1)

\* BaseResponse._remove_callback_buttons: the calls it makes
RemoveButtonsCalls(st, edit_ok) ==
    IF st.callback_message_id = EMPTY_STR THEN <<>>
    ELSE IF st.callback_message_need_to_delete
    THEN <<Call("delete_message", Content(""), NoMarkup, st.callback_message_id, edit_ok)>>
    ELSE <<Call("edit_markup", Content(""), st.callback_message_inline_markup,
                st.callback_message_id, edit_ok)>>

\* BaseResponse._remove_callback_buttons: the state it leaves
RemoveButtonsState(st) ==
    IF st.callback_message_id = EMPTY_STR THEN st
    ELSE [st EXCEPT !.callback_message_id = None]

\* a delivered message gets the flags of a tracked message but not its id
TrackSent_KeepsId(st, send_result) ==
    IF send_result = "fail" THEN st
    ELSE [st EXCEPT !.callback_message_inline_markup = NoMarkup,
                    !.callback_message_need_to_delete = FALSE]

\* lines 351-354: a delivered message becomes the tracked callback message
TrackSent(st, send_result) ==
    IF send_result = "fail" THEN st
    ELSE [st EXCEPT !.callback_message_inline_markup = NoMarkup,
                    !.callback_message_need_to_delete = FALSE,
                    !.callback_message_id = send_result]

\* a failed clear of the tracked message ends the handler
ChatHandler_ClearAborts(st, response, ai_ok, edit_ok, send_result) ==
    LET st1 == PushMarker(st)
        req == Exchange(AiRequest(st1), ai_ok, response)
    IN IF ~ai_ok THEN Result(st1, <<>>, req, "exception")
       ELSE LET r == Interpret(st1, response)
                clear == RemoveButtonsCalls(r.st, edit_ok)
            IN IF r.content.tag = "<raise>" THEN Result(r.st, <<>>, req, "exception")
               ELSE IF clear # <<>> /\ ~edit_ok
               THEN Result(r.st, clear, req, "exception")
               ELSE Result(TrackSent(RemoveButtonsState(r.st), send_result),
                           clear \o <<SendCall(FALSE, r.content, ChatMarkup(r.st),
                                               send_result)>>,
                           req, "ok")

\* ChatHandler.__call__
ChatHandler(st, response, ai_ok, edit_ok, send_result) ==
    LET st1 == PushMarker(st)
        req == Exchange(AiRequest(st1), ai_ok, response)
    IN IF ~ai_ok THEN Result(st1, <<>>, req, "exception")
       ELSE LET r == Interpret(st1, response)
            IN IF r.content.tag = "<raise>" THEN Result(r.st, <<>>, req, "exception")
               ELSE LET st2 == RemoveButtonsState(r.st)
                    IN Result(TrackSent(st2, send_result),
                              RemoveButtonsCalls(r.st, edit_ok)
                                \o <<SendCall(FALSE, r.content, ChatMarkup(r.st),
                                              send_result)>>,
                              req, "ok")

(***************************************************************************)
(* Inputs of the environment.                                              *)
(***************************************************************************)
MsgIds == {"m1", "m2"}

\* what a send returns: a failure, a response without message_id, or an id
SendResults == {"fail", None} \cup MsgIds

CommandTexts == {"/start", "/reset"}

SpecialCallbacks == {"exit_callback", "hide_callback", "previous_callback",
                     "next_callback", "inactive_callback", "accept_callback"}

PaginationCallbacks == {"previous_callback", "next_callback", "inactive_callback",
                        "accept_callback"}

\* message texts: commands, an unknown command, menu buttons, free text
MessageTexts == CommandTexts \cup {"/help"} \cup FlowNames \cup {"hello"}

\* callback payloads: the specialized ones, flow names, an unknown one, an
\* empty one and a missing one
CallbackPayloads == SpecialCallbacks \cup FlowNames \cup {"unknown", "", None}

CardLists(base) ==
    {NoCards} \cup {CardsOf([i \in 1..n |-> base + i]) : n \in 0..MaxCards}

\* the product_cards lists: none, empty, or the longest
ProductLists == {NoCards, CardsOf(<<>>), CardsOf([i \in 1..MaxCards |-> 10 + i])}

AiResponses ==
    [answer : {AnswerAbsent, None, "text", YaRuAnswer},
     cards : CardLists(0),
     product_cards : ProductLists]


(***************************************************************************)
(* Dispatch (core/bot.py).                                                 *)
(***************************************************************************)
\* mutant: only the texts of the command table count as commands
StartsWithSlash_KnownOnly(text) == text \in CommandTexts

StartsWithSlash(text) == text \in CommandTexts \cup {"/help"}

\* mutant: the handler table holds the commands only
InHandlers_NoFlows(name) == name \in CommandTexts

\* self.handlers: the commands and one handler per flow
InHandlers(name) == name \in CommandTexts \cup FlowNames

\* a handler of self.handlers called on a user
CallHandler(name, st, vip, send_result) ==
    CASE name = "/start" -> StartCommand(st, vip, send_result)
      [] name = "/reset" -> ResetCommand(st, vip, send_result)
      [] OTHER -> FlowHandler(name, st, vip, send_result)

\* a handler of self.callback_handlers called on a user
CallCallbackHandler(payload, st, vip, message_id, edit_ok, send_result) ==
    CASE payload = "exit_callback" -> ExitCallback(st, vip, send_result)
      [] payload = "hide_callback" -> HideMessageCallback(st, message_id, edit_ok)
      [] OTHER -> PaginationCallback(payload, st, message_id, edit_ok)

\* the event leaves everything but the record of the event as it was
Dropped(u, kind, text, ts, has_user_id, result) ==
    /\ ev' = [kind |-> kind, user |-> u, text |-> text, ts |-> ts, has_user_id |-> has_user_id,
              handler |-> "none", result |-> result]
    /\ out' = <<>>
    /\ ai_request' = NoRequest
    /\ UNCHANGED <<state, is_vip, tasks, startup>>

\* a handler ran: its state is persisted, its calls and request recorded
Handled(u, kind, text, ts, has_user_id, handler, res) ==
    /\ Len(res.st.flow_stack) <= MaxDepth
    /\ ev' = [kind |-> kind, user |-> u, text |-> text, ts |-> ts, has_user_id |-> has_user_id,
              handler |-> handler, result |-> res.status]
    /\ state' = [state EXCEPT ![u] = res.st]
    /\ out' = res.calls
    /\ ai_request' = res.req
    /\ UNCHANGED <<is_vip, tasks, startup>>

\* MaxBot._process_message on a command
CommandMessage(u, text, send_result) ==
    /\ StartsWithSlash(text)
    /\ UNCHANGED processed_callbacks
    /\ IF InHandlers(text)
       THEN Handled(u, "message", text, 0, FALSE, text,
                    CallHandler(text, state[u], is_vip[u], send_result))
       ELSE Dropped(u, "message", text, 0, FALSE, "unrouted")

\* MaxBot._process_message on the text of a menu button
ButtonMessage(u, text, send_result) ==
    /\ ~StartsWithSlash(text)
    /\ InHandlers(text)
    /\ UNCHANGED processed_callbacks
    /\ Handled(u, "message", text, 0, FALSE, text,
               CallHandler(text, state[u], is_vip[u], send_result))

\* MaxBot._process_message on free text
ChatMessage(u, text, response, ai_ok, edit_ok, send_result) ==
    /\ ~StartsWithSlash(text)
    /\ ~InHandlers(text)
    /\ UNCHANGED processed_callbacks
    /\ Handled(u, "message", text, 0, FALSE, "chat",
               ChatHandler(state[u], response, ai_ok, edit_ok, send_result))

\* mutant: no event is taken for a duplicate
IsDuplicate_Never(cache, key, callback_timestamp) == FALSE

\* mutant: an event at the edge of the window counts as a duplicate
IsDuplicate_Inclusive(cache, key, callback_timestamp) ==
    /\ key \in DOMAIN cache
    /\ callback_timestamp - cache[key] <= DeduplicationWindowMs

\* lines 235-242: the event repeats a recorded one inside the window
IsDuplicate(cache, key, callback_timestamp) ==
    /\ key \in DOMAIN cache
    /\ callback_timestamp - cache[key] < DeduplicationWindowMs

\* mutant: the entry is recorded and nothing is dropped
RecordAndPrune_KeepsAll(cache, key, callback_timestamp) ==
    [k \in DOMAIN cache \cup {key} |->
        IF k = key THEN callback_timestamp ELSE cache[k]]

\* lines 245-254: record the event, then drop the entries older than 10 s
RecordAndPrune(cache, key, callback_timestamp) ==
    LET recorded == [k \in DOMAIN cache \cup {key} |->
                        IF k = key THEN callback_timestamp ELSE cache[k]]
        kept == {k \in DOMAIN recorded : ~(callback_timestamp - recorded[k] > PruneAgeMs)}
    IN [k \in kept |-> recorded[k]]

\* mutant: the flow table is looked up before the specialized table
RouteCallback_FlowsFirst(u, payload, ts, has_user_id, message_id, edit_ok, send_result) ==
    IF InHandlers(payload)
    THEN Handled(u, "callback", payload, ts, has_user_id, payload,
                 CallHandler(payload, state[u], is_vip[u], send_result))
    ELSE IF payload \in SpecialCallbacks
    THEN Handled(u, "callback", payload, ts, has_user_id, payload,
                 CallCallbackHandler(payload, state[u], is_vip[u], message_id,
                                     edit_ok, send_result))
    ELSE Dropped(u, "callback", payload, ts, has_user_id, "unrouted")

\* lines 302-326: the specialized table first, then the flow table
RouteCallback(u, payload, ts, has_user_id, message_id, edit_ok, send_result) ==
    IF payload \in SpecialCallbacks
    THEN Handled(u, "callback", payload, ts, has_user_id, payload,
                 CallCallbackHandler(payload, state[u], is_vip[u], message_id,
                                     edit_ok, send_result))
    ELSE IF InHandlers(payload)
    THEN Handled(u, "callback", payload, ts, has_user_id, payload,
                 CallHandler(payload, state[u], is_vip[u], send_result))
    ELSE Dropped(u, "callback", payload, ts, has_user_id, "unrouted")

\* mutant: every callback is keyed
Keyed_Always(has_user_id, payload) == TRUE

\* line 231: the event can be keyed for the dedup cache
Keyed(has_user_id, payload) == has_user_id /\ payload \notin {"", None}

\* MaxBot._process_callback; a missing payload makes callback_payload[:30]
\* raise, and process_update logs and drops the event
\* a dropped duplicate is recorded with its timestamp like a processed event
ProcessCallback_DuplicateRefreshes(u, has_user_id, payload, ts, has_chat_id, message_id, edit_ok, send_result) ==
    LET keyed == Keyed(has_user_id, payload)
        key == <<u, payload>>
    IN IF payload = None
       THEN /\ UNCHANGED processed_callbacks
            /\ Dropped(u, "callback", payload, ts, has_user_id, "crash")
       ELSE IF keyed /\ IsDuplicate(processed_callbacks, key, ts)
       THEN /\ processed_callbacks' = RecordAndPrune(processed_callbacks, key, ts)
            /\ Dropped(u, "callback", payload, ts, has_user_id, "duplicate")
       ELSE /\ processed_callbacks' =
                   IF keyed THEN RecordAndPrune(processed_callbacks, key, ts)
                   ELSE processed_callbacks
            /\ IF payload = ""
               THEN Dropped(u, "callback", payload, ts, has_user_id, "no_payload")
               ELSE IF ~has_chat_id
               THEN Dropped(u, "callback", payload, ts, has_user_id, "no_chat_id")
               ELSE RouteCallback(u, payload, ts, has_user_id, message_id, edit_ok,
                                  send_result)

ProcessCallback(u, has_user_id, payload, ts, has_chat_id, message_id, edit_ok, send_result) ==
    LET keyed == Keyed(has_user_id, payload)
        key == <<u, payload>>
    IN IF payload = None
       THEN /\ UNCHANGED processed_callbacks
            /\ Dropped(u, "callback", payload, ts, has_user_id, "crash")
       ELSE IF keyed /\ IsDuplicate(processed_callbacks, key, ts)
       THEN /\ UNCHANGED processed_callbacks
            /\ Dropped(u, "callback", payload, ts, has_user_id, "duplicate")
       ELSE /\ processed_callbacks' =
                   IF keyed THEN RecordAndPrune(processed_callbacks, key, ts)
                   ELSE processed_callbacks
            /\ IF payload = ""
               THEN Dropped(u, "callback", payload, ts, has_user_id, "no_payload")
               ELSE IF ~has_chat_id
               THEN Dropped(u, "callback", payload, ts, has_user_id, "no_chat_id")
               ELSE RouteCallback(u, payload, ts, has_user_id, message_id, edit_ok,
                                  send_result)

(***************************************************************************)
(* The specification: one user's events, processed one at a time.          *)
(***************************************************************************)
ActiveUsers == {"alice"}

\* the webhook deliveries (MaxWebhookHandler.handle_update), each of one user
Deliveries == {"a1", "a2", "b1"}

DeliveryUser(d) == IF d = "b1" THEN "bob" ELSE "alice"

IdleTask ==
    [pc |-> "idle", user |-> "", payload |-> "", ts |-> 0, snap |-> DefaultState]

Init ==
    /\ tasks = [d \in Deliveries |-> IdleTask]
    /\ state = [u \in Users |-> DefaultState]
    /\ is_vip \in {f \in [Users -> BOOLEAN] : \A u \in Users \ ActiveUsers : ~f[u]}
    /\ processed_callbacks = <<>>
    /\ out = <<>>
    /\ ai_request = NoRequest
    /\ ev = NoEvent
    /\ startup = Started

\* a platform call of a handler that makes one kind of call: it fails or it
\* answers with the id of the message
SendOutcome(ok) == IF ok THEN "m1" ELSE "fail"

\* The events of a specification are drawn from an input record I: the
\* message texts, the AI responses and whether the AI server answers, the
\* outcomes of the platform calls, the results of a chat reply's send, the
\* callback payloads and the callback timestamps.
Command(I) == \E u \in ActiveUsers, text \in I.texts, ok \in I.oks :
    CommandMessage(u, text, SendOutcome(ok))

Button(I) == \E u \in ActiveUsers, text \in I.texts, ok \in I.oks :
    ButtonMessage(u, text, SendOutcome(ok))

Chat(I) == \E u \in ActiveUsers, text \in I.texts, response \in I.responses,
              ai_ok \in I.ai_oks, edit_ok \in I.oks, r \in I.sends :
    /\ ~ai_ok => response = EmptyResponse /\ edit_ok /\ r = "fail"
    /\ ChatMessage(u, text, response, ai_ok, edit_ok, r)

Callback(I) == \E u \in ActiveUsers, payload \in I.payloads,
                  ts \in I.timestamps, ok \in I.oks :
    ProcessCallback(u, TRUE, payload, ts, TRUE, "m1", ok, SendOutcome(ok))

\* a callback update without the user id of the callback: it carries any
\* payload, also an empty or a missing one, and no timestamp
AnonymousCallback(I) == \E u \in ActiveUsers, payload \in I.anonymous_payloads,
                           ok \in I.oks :
    ProcessCallback(u, FALSE, payload, 0, TRUE, "m1", ok, SendOutcome(ok))

\* a callback update without the chat id of the message
ChatlessCallback(I) == \E u \in ActiveUsers, payload \in I.payloads,
                          ts \in I.timestamps :
    ProcessCallback(u, TRUE, payload, ts, FALSE, "m1", TRUE, "m1")

NextOn(I) ==
    \/ Command(I)
    \/ Button(I)
    \/ Chat(I)
    \/ Callback(I)
    \/ AnonymousCallback(I)
    \/ ChatlessCallback(I)

\* Navigation: every message text, the callbacks that move the user, a reply
\* of each shape
NavInputs ==
    [texts |-> MessageTexts,
     responses |-> {EmptyResponse,
                    [EmptyResponse EXCEPT !.answer = "text"],
                    [EmptyResponse EXCEPT !.product_cards =
                        CardsOf([i \in 1..MaxCards |-> 10 + i])]},
     ai_oks |-> BOOLEAN,
     oks |-> BOOLEAN,
     sends |-> {"fail", "m1"},
     payloads |-> {"exit_callback"},
     anonymous_payloads |-> {"next_callback", "Sub", "Search", "unknown", "", None},
     timestamps |-> {0, 1000, 2000, 3000}]

Next == NextOn(NavInputs)

Spec == Init /\ [][Next]_vars

\* Dedup: three keys and timestamps that put recorded entries inside the
\* window, at its edge, at the pruning age and beyond it
DedupInputs ==
    [texts |-> {"/start", "Info", "info", "hello"},
     responses |-> {EmptyResponse},
     ai_oks |-> {TRUE},
     oks |-> {TRUE},
     sends |-> {"m1"},
     payloads |-> {"exit_callback", "hide_callback", "unknown"},
     anonymous_payloads |-> {"exit_callback", "Catalog", "", None},
     timestamps |-> {0, 1000, 2000, 10000, 12000, 12001}]

NextDedup == NextOn(DedupInputs)

SpecDedup == Init /\ [][NextDedup]_vars

\* Pagination: a search flow, replies with no card list, an empty one and
\* lists of every length under product_cards, replies with a list under
\* cards, alone or next to one under product_cards, replies with an answer,
\* alone or next to an empty list, and the pagination callbacks
PageInputs ==
    [texts |-> {"/start", "Catalog", "Search", "hello"},
     responses |-> {[EmptyResponse EXCEPT !.product_cards = c] : c \in CardLists(10)}
                     \cup {[EmptyResponse EXCEPT !.cards = c, !.product_cards = p] :
                              c \in {CardsOf(<<>>), CardsOf(<<1, 2>>)},
                              p \in {NoCards, CardsOf([i \in 1..MaxCards |-> 10 + i])}}
                     \cup {[EmptyResponse EXCEPT !.answer = "text"],
                           [EmptyResponse EXCEPT !.answer = "text",
                                                 !.cards = CardsOf(<<>>)],
                           [EmptyResponse EXCEPT !.answer = "text",
                                                 !.product_cards = CardsOf(<<>>)]},
     ai_oks |-> {TRUE},
     oks |-> BOOLEAN,
     sends |-> {"m1"},
     payloads |-> {"exit_callback"},
     anonymous_payloads |-> PaginationCallbacks,
     timestamps |-> {0, 2000}]

NextPages == NextOn(PageInputs)

SpecPages == Init /\ [][NextPages]_vars

\* Chat replies: free text outside and inside a managed flow, an AI server
\* that answers or fails, and every outcome of the clear of the tracked
\* message and of the send of the reply
ChatInputs ==
    [texts |-> {"/reset", "Ask", "hello"},
     responses |-> {EmptyResponse, [EmptyResponse EXCEPT !.answer = "text"]},
     ai_oks |-> BOOLEAN,
     oks |-> BOOLEAN,
     sends |-> SendResults,
     payloads |-> {"exit_callback"},
     anonymous_payloads |-> {"unknown"},
     timestamps |-> {0, 2000}]

NextChat == NextOn(ChatInputs)

SpecChat == Init /\ [][NextChat]_vars

(***************************************************************************)
(* Startup (MaxBot.__init__): the configuration document is loaded with    *)
(* its references resolved, then the handlers of the flow tree are         *)
(* registered.                                                             *)
(***************************************************************************)
\* the buttons sections: the configured one, an empty one, one whose exit
\* button has no content, one with a button named "buttons"
ButtonSections ==
    {ConfigButtons,
     DictValue(<<>>),
     DictValue(StrExit :> DictValue(StrName :> StrValue(StrBack))),
     DictValue(StrExit :> DictValue(StrName :> StrValue(StrBack)
                                      @@ StrContent :> StrValue(StrBye))
                 @@ StrButtons :> DictValue(StrExit :>
                                      DictValue(StrContent :> StrValue(StrOther))))}

\* the strings a content holds: references of one, two and three parts, to
\* present and to missing keys, with an empty part, and plain strings
ContentStrings ==
    {Reference(<<StrExit, StrContent>>),
     Reference(<<StrButtons, StrExit, StrContent>>),
     Reference(<<StrExit>>),
     Reference(<<StrExit, StrName>>),
     Reference(<<StrOther>>),
     Reference(<<StrExit, StrOther>>),
     Reference(<<StrExit, StrContent, StrName>>),
     Reference(<< <<>> >>),
     Reference(<<StrExit, <<>> >>),
     StrBye,
     <<>>}

\* the types a flow may be given in the configuration
ConfigTypes == {"static", "extended_static", "managed", "unknown"}

\* the flows whose type varies: a root flow with children, a nested flow
\* with a child, a root flow without children
TypeChoices == [{"Catalog", "Sub", "Ask"} -> ConfigTypes]

InitStartup ==
    /\ tasks = [d \in Deliveries |-> IdleTask]
    /\ state = [u \in Users |-> DefaultState]
    /\ is_vip = [u \in Users |-> FALSE]
    /\ processed_callbacks = <<>>
    /\ out = <<>>
    /\ ai_request = NoRequest
    /\ ev = NoEvent
    /\ \E buttons \in ButtonSections, content \in ContentStrings, types \in TypeChoices :
          startup = [pc |-> "init",
                     document |-> Document(buttons, content),
                     flows |-> FlowTree(types),
                     config |-> DictValue(<<>>),
                     handlers |-> <<>>]

\* __init__, line 33: the load succeeds or the ValueError aborts it
LoadConfig ==
    /\ startup.pc = "init"
    /\ LET config == load_json_with_references(startup.document)
       IN startup' = [startup EXCEPT !.config = config,
                                     !.pc = IF config = ValueError THEN "aborted"
                                            ELSE "loaded"]
    /\ UNCHANGED <<state, is_vip, processed_callbacks, out, ai_request, ev, tasks>>

\* __init__, line 39: _register_handlers walks the flow tree
RegisterHandlers ==
    /\ startup.pc = "loaded"
    /\ startup' = [startup EXCEPT !.handlers = RegisterFlows(startup.flows),
                                  !.pc = "registered"]
    /\ UNCHANGED <<state, is_vip, processed_callbacks, out, ai_request, ev, tasks>>

NextStartup ==
    \/ LoadConfig
    \/ RegisterHandlers

SpecStartup == InitStartup /\ [][NextStartup]_vars

(***************************************************************************)
(* Webhook deliveries: every inbound call runs process_update as its own   *)
(* coroutine, and the coroutines interleave at their awaits.               *)
(***************************************************************************)
ConcurrentPayloads == {"exit_callback", "Catalog"}

ConcurrentTimestamps == {0, 1000, 2000, 12000}

\* process_update lines 155-170: the user of the update is loaded
Receive(d, payload, ts) ==
    /\ tasks[d].pc = "idle"
    /\ tasks' = [tasks EXCEPT ![d] = [pc |-> "loaded", user |-> DeliveryUser(d),
                                      payload |-> payload, ts |-> ts,
                                      snap |-> state[DeliveryUser(d)]]]
    /\ UNCHANGED <<state, is_vip, processed_callbacks, out, ai_request, ev, startup>>

\* the handler of a payload, run on the user the delivery loaded
RunHandler(payload, st, vip) ==
    IF payload \in SpecialCallbacks
    THEN CallCallbackHandler(payload, st, vip, "m1", TRUE, "m1")
    ELSE CallHandler(payload, st, vip, "m1")

\* _process_callback up to the return of the handler: no await separates
\* the dedup check from the record and the prune
Dispatch(d) ==
    LET t == tasks[d]
        key == <<t.user, t.payload>>
        event == [kind |-> "callback", user |-> t.user, text |-> t.payload,
                  ts |-> t.ts, has_user_id |-> TRUE, handler |-> "none",
                  result |-> "none"]
        res == RunHandler(t.payload, t.snap, is_vip[t.user])
    IN /\ t.pc = "loaded"
       /\ UNCHANGED <<state, is_vip, startup>>
       /\ IF IsDuplicate(processed_callbacks, key, t.ts)
          THEN /\ tasks' = [tasks EXCEPT ![d].pc = "dropped"]
               /\ ev' = [event EXCEPT !.result = "duplicate"]
               /\ out' = <<>>
               /\ ai_request' = NoRequest
               /\ UNCHANGED processed_callbacks
          ELSE /\ processed_callbacks' = RecordAndPrune(processed_callbacks, key, t.ts)
               /\ IF t.payload \in SpecialCallbacks \/ InHandlers(t.payload)
                  THEN /\ tasks' = [tasks EXCEPT ![d].pc = "handled",
                                                 ![d].snap = res.st]
                       /\ ev' = [event EXCEPT !.handler = t.payload,
                                              !.result = res.status]
                       /\ out' = res.calls
                       /\ ai_request' = res.req
                  ELSE /\ tasks' = [tasks EXCEPT ![d].pc = "dropped"]
                       /\ ev' = [event EXCEPT !.result = "unrouted"]
                       /\ out' = <<>>
                       /\ ai_request' = NoRequest

\* the state the handler returned is written for every user
Persist_EveryUser(d) ==
    /\ tasks[d].pc = "handled"
    /\ tasks' = [tasks EXCEPT ![d].pc = "done"]
    /\ state' = [u \in Users |-> tasks[d].snap]
    /\ UNCHANGED <<is_vip, processed_callbacks, out, ai_request, ev, startup>>

\* update_user_state: the state the handler returned is written, whatever
\* another delivery wrote meanwhile
Persist(d) ==
    /\ tasks[d].pc = "handled"
    /\ tasks' = [tasks EXCEPT ![d].pc = "done"]
    /\ state' = [state EXCEPT ![tasks[d].user] = tasks[d].snap]
    /\ UNCHANGED <<is_vip, processed_callbacks, out, ai_request, ev, startup>>

NextConcurrent ==
    \/ \E d \in Deliveries, payload \in ConcurrentPayloads,
          ts \in ConcurrentTimestamps : Receive(d, payload, ts)
    \/ \E d \in Deliveries : Dispatch(d)
    \/ \E d \in Deliveries : Persist(d)

SpecConcurrent == Init /\ [][NextConcurrent]_vars

(***************************************************************************)
(* Properties.                                                             *)
(***************************************************************************)
\* the step is an event of user u that reached handler h
Reached(u, h) == ev'.user = u /\ ev'.handler = h

TopFlow(u) == Last(state[u].flow_stack)

CheckedKinds == {"extended_static", "managed"}

\* the event is a callback that carries a user id and a payload
KeyedEvent(e) ==
    /\ e.kind = "callback"
    /\ e.has_user_id
    /\ e.text \notin {"", None}

\* C1: in every reachable state the flow stack of every user is non-empty and
\* its first element is "main"
C1_StackAnchoredAtMain ==
    \A u \in Users :
        /\ Len(state[u].flow_stack) >= 1
        /\ state[u].flow_stack[1] = "main"

\* an exit at ["main"] ran and left ["main"]
C1_Witness ==
    /\ ev.handler = "exit_callback"
    /\ ev.result = "ok"
    /\ state[ev.user].flow_stack = <<"main">>
    /\ state[ev.user].callback_message_id = "m1"

\* C2: when the flow at the top of the stack is entered again (a Managed or
\* ExtendedStatic flow), the entry is accepted and the stack stays as it was
C2_SelfReentryKeepsStack ==
    [][\A u \in Users, f \in FlowNames :
          (/\ Reached(u, f)
           /\ FlowType(f) \in CheckedKinds
           /\ ValidateUser(f, is_vip[u])
           /\ TopFlow(u) = f)
          => /\ ev'.result = "ok"
             /\ state'[u].flow_stack = state[u].flow_stack]_vars

\* C3 as claimed: a nested flow of any kind is entered (by a user who may
\* use it) iff it is listed in the menu of the current flow; otherwise
\* nothing changes and nothing is sent
C3_NestedEntryAnyKind ==
    [][\A u \in Users, f \in FlowNames :
          (Reached(u, f) /\ IsNested(f) /\ ValidateUser(f, is_vip[u]))
          => /\ (ev'.result = "ok") <=> (f \in ButtonNames(TopFlow(u)))
             /\ f \notin ButtonNames(TopFlow(u))
                  => state' = state /\ out' = <<>>]_vars

\* C3 amended: a nested ExtendedStatic or Managed flow F, entered by a user
\* who may use it and whose current flow C is not F, is pushed iff F is
\* listed in the menu of C; otherwise nothing changes and nothing is sent
C3_NestedEntryLegality ==
    [][\A u \in Users, f \in FlowNames :
          (/\ Reached(u, f)
           /\ IsNested(f)
           /\ FlowType(f) \in CheckedKinds
           /\ ValidateUser(f, is_vip[u])
           /\ TopFlow(u) # f)
          => IF f \in ButtonNames(TopFlow(u))
             THEN /\ ev'.result = "ok"
                  /\ state'[u].flow_stack = Append(state[u].flow_stack, f)
             ELSE /\ ev'.result = "flow_invalid"
                  /\ state' = state
                  /\ out' = <<>>]_vars

\* a nested flow was refused because the current menu does not list it
C3_Witness ==
    /\ ev.handler = "Search"
    /\ ev.result = "flow_invalid"
    /\ Last(state[ev.user].flow_stack) = "Sub"

\* C4: a non-nested flow is entered iff the current flow is "main"; from any
\* other flow the entry is refused, the state is not changed and nothing is
\* sent (stated for the ExtendedStatic flows, the ones that run the check)
C4_RootEntryOnlyFromMain ==
    [][\A u \in Users, f \in FlowNames :
          (/\ Reached(u, f)
           /\ ~IsNested(f)
           /\ FlowType(f) = "extended_static"
           /\ ValidateUser(f, is_vip[u])
           /\ TopFlow(u) # f)
          => /\ (ev'.result = "ok") <=> (TopFlow(u) = "main")
             /\ TopFlow(u) # "main"
                  => state' = state /\ out' = <<>>]_vars

\* C5 as claimed: from "main", a successful entry into a non-nested flow of
\* any kind leaves the stack ["main", F]
C5_RootEntryAnyKind ==
    [][\A u \in Users, f \in FlowNames :
          (/\ Reached(u, f)
           /\ ~IsNested(f)
           /\ ev'.result = "ok"
           /\ TopFlow(u) = "main")
          => state'[u].flow_stack = <<"main", f>>]_vars

\* C5 amended: from "main", a successful entry into a root-level
\* ExtendedStatic or Managed flow F leaves the stack ["main", F]; a Static
\* flow shows its content and leaves the stack as it was
C5_RootEntryResult ==
    [][\A u \in Users, f \in FlowNames :
          (/\ Reached(u, f)
           /\ ParentName(f) = "main"
           /\ ev'.result = "ok"
           /\ TopFlow(u) = "main")
          => IF FlowType(f) \in CheckedKinds
             THEN state'[u].flow_stack = <<"main", f>>
             ELSE state'[u].flow_stack = state[u].flow_stack]_vars

\* a root-level Managed flow was entered from "main"
C5_Witness ==
    /\ ev.handler = "Ask"
    /\ ev.result = "ok"
    /\ state[ev.user].flow_stack = <<"main", "Ask">>

\* C6: the exit callback drops the last element of a stack longer than one,
\* leaves ["main"] as it is, and clears use_pagination, search_type and cards
C6_ExitPopsAndClears ==
    [][\A u \in Users :
          Reached(u, "exit_callback")
          => /\ state'[u].flow_stack =
                   IF Len(state[u].flow_stack) > 1
                   THEN SubSeq(state[u].flow_stack, 1, Len(state[u].flow_stack) - 1)
                   ELSE <<"main">>
             /\ state'[u].use_pagination = FALSE
             /\ state'[u].search_type = ""
             /\ state'[u].cards_json.none]_vars

\* an exit popped one level of a stack of three
C6_Witness ==
    /\ ev.handler = "exit_callback"
    /\ state[ev.user].flow_stack = <<"main", "Catalog">>
    /\ state[ev.user].cards_total_length > 0

\* C7: a privileged flow of any kind triggered by a user who is not VIP
\* changes no field of the user state and sends nothing
C7_NotVipNoEffect ==
    [][\A u \in Users, f \in FlowNames :
          (Reached(u, f) /\ FlowPrivileged(f) /\ ~is_vip[u])
          => /\ state' = state
             /\ out' = <<>>
             /\ ev'.result = "not_allowed"]_vars

\* a user who is not VIP pressed a privileged button from inside a flow
C7_Witness ==
    /\ ev.handler \in {"Sub", "Leaf", "Ask"}
    /\ ev.result = "not_allowed"
    /\ ~is_vip[ev.user]
    /\ Len(state[ev.user].flow_stack) > 1

\* C8: in the Managed and ExtendedStatic handlers the transition check sees
\* the stack the user held when the event arrived: the entry is accepted
\* exactly when validate_flow accepts that stack
C8_CheckSeesArrivalStack ==
    [][\A u \in Users, f \in FlowNames :
          (/\ Reached(u, f)
           /\ FlowType(f) \in CheckedKinds
           /\ ValidateUser(f, is_vip[u]))
          => ((ev'.result = "ok") <=> ValidateFlow(f, state[u]))]_vars

C10_DedupWindow ==
    [][\A u \in Users, payload \in CallbackPayloads :
          (/\ KeyedEvent(ev')
           /\ ev'.user = u
           /\ ev'.text = payload
           /\ <<u, payload>> \in DOMAIN processed_callbacks)
          => IF ev'.ts - processed_callbacks[<<u, payload>>] < 2000
             THEN /\ ev'.result = "duplicate"
                  /\ ev'.handler = "none"
                  /\ state' = state
                  /\ out' = <<>>
             ELSE /\ ev'.result # "duplicate"
                  /\ <<u, payload>> \in DOMAIN processed_callbacks'
                  /\ processed_callbacks'[<<u, payload>>] = ev'.ts]_vars

\* an event one second after the recorded one was dropped
C10_Witness ==
    /\ ev.kind = "callback"
    /\ ev.result = "duplicate"
    /\ <<ev.user, ev.text>> \in DOMAIN processed_callbacks
    /\ ev.ts - processed_callbacks[<<ev.user, ev.text>>] = 1000

\* the last event was recorded in the dedup cache
Inserted ==
    /\ KeyedEvent(ev)
    /\ ev.result # "duplicate"

\* C11: right after a callback event with timestamp t is recorded, the cache
\* holds no entry older than 10000 ms relative to t and holds the entry of
\* the event itself, with t
C11_PrunedAfterInsert ==
    Inserted =>
        /\ \A k \in DOMAIN processed_callbacks :
              ev.ts - processed_callbacks[k] <= 10000
        /\ <<ev.user, ev.text>> \in DOMAIN processed_callbacks
        /\ processed_callbacks[<<ev.user, ev.text>>] = ev.ts

\* an insert pruned the cache: an entry exactly 10000 ms old survived it and
\* the third key is gone or was never recorded
C11_Witness ==
    /\ Inserted
    /\ ev.ts = 12000
    /\ \E k \in DOMAIN processed_callbacks : processed_callbacks[k] = 2000
    /\ Cardinality(DOMAIN processed_callbacks) = 2

\* C12: a callback event without a user id or without a payload leaves the
\* dedup cache as it was and is never dropped as a duplicate
C12_UnkeyedBypassesDedup ==
    [][(ev'.kind = "callback" /\ ~KeyedEvent(ev'))
          => /\ processed_callbacks' = processed_callbacks
             /\ ev'.result # "duplicate"]_vars

\* a callback without a user id ran its handler although the same payload
\* of the same user was recorded less than 2000 ms before
C12_Witness ==
    /\ ev.kind = "callback"
    /\ ~ev.has_user_id
    /\ ev.handler = "exit_callback"
    /\ <<ev.user, ev.text>> \in DOMAIN processed_callbacks
    /\ ev.ts - processed_callbacks[<<ev.user, ev.text>>] < 2000

\* the delivery ran a handler
ReachedHandler(d) == tasks[d].pc \in {"handled", "done"}

\* two deliveries of the same callback, less than 2000 ms apart
SameCallback(d1, d2) ==
    /\ d1 # d2
    /\ tasks[d1].pc # "idle"
    /\ tasks[d2].pc # "idle"
    /\ tasks[d1].user = tasks[d2].user
    /\ tasks[d1].payload = tasks[d2].payload
    /\ tasks[d1].ts - tasks[d2].ts < 2000
    /\ tasks[d2].ts - tasks[d1].ts < 2000

Earlier(d1, d2) ==
    IF tasks[d1].ts < tasks[d2].ts THEN tasks[d1].ts ELSE tasks[d2].ts

\* C13 as claimed: of two interleaved deliveries of the same callback, less
\* than 2000 ms apart, at most one reaches a handler, whatever the other
\* users' deliveries insert and prune meanwhile
C13_OneDeliveryHandled ==
    \A d1, d2 \in Deliveries :
        SameCallback(d1, d2) => ~(ReachedHandler(d1) /\ ReachedHandler(d2))

\* both deliveries ran a handler only if a delivery stamped more than
\* 10000 ms after them was recorded too
C13_OneHandledUnlessPruned ==
    \A d1, d2 \in Deliveries :
        (SameCallback(d1, d2) /\ ReachedHandler(d1) /\ ReachedHandler(d2))
        => \E d3 \in Deliveries :
              /\ ReachedHandler(d3)
              /\ tasks[d3].ts - Earlier(d1, d2) > 10000

\* an event stamped T leaves every other entry that is at most 10000 ms
\* older than T in the cache, with its timestamp
C13_OtherEntriesKept ==
    \A k \in DOMAIN processed_callbacks :
        (k # <<ev'.user, ev'.text>> /\ ev'.ts - processed_callbacks[k] <= 10000)
        => /\ k \in DOMAIN processed_callbacks'
           /\ processed_callbacks'[k] = processed_callbacks[k]

\* C13 amended: the dedup check, record and prune are one atomic step, so of
\* two interleaved deliveries of the same callback, less than 2000 ms apart,
\* at most one reaches a handler unless a delivery stamped more than
\* 10000 ms later was recorded between them and pruned the entry; an insert
\* stamped T never drops or changes another entry at most 10000 ms older
\* than T
C13_DedupUnderInterleaving ==
    /\ []C13_OneHandledUnlessPruned
    /\ [][C13_OtherEntriesKept]_vars

\* a second delivery was dropped while the first was still in its handler
\* and another user's delivery had been handled as well
C13_Witness ==
    /\ tasks["a1"].pc = "handled"
    /\ tasks["a2"].pc = "dropped"
    /\ SameCallback("a1", "a2")
    /\ tasks["b1"].pc = "handled"
    /\ tasks["b1"].ts = 2000

\* C14: with cards present, next at the last page and previous at the first
\* page leave cards_current_page as it was; otherwise next adds exactly 1
\* and previous subtracts exactly 1
C14_PageClamped ==
    [][\A u \in Users, p \in {"next_callback", "previous_callback"} :
          (Reached(u, p) /\ Truthy(state[u].cards_json))
          => LET page == state[u].cards_current_page
                 total == state[u].cards_total_length
             IN state'[u].cards_current_page =
                   IF p = "next_callback"
                   THEN IF page = total - 1 THEN page ELSE page + 1
                   ELSE IF page = 0 THEN page ELSE page - 1]_vars

\* previous moved the user from the last of three pages to the middle one
C14_Witness ==
    /\ ev.handler = "previous_callback"
    /\ ev.result = "ok"
    /\ Truthy(state[ev.user].cards_json)
    /\ state[ev.user].cards_current_page = 1
    /\ state[ev.user].cards_total_length = 3

\* C15: whenever the cards of a user are present and non-empty,
\* 0 <= cards_current_page < cards_total_length and cards_total_length is
\* the number of cards
C15_PageInRange ==
    \A u \in Users :
        Truthy(state[u].cards_json)
        => /\ 0 <= state[u].cards_current_page
           /\ state[u].cards_current_page < state[u].cards_total_length
           /\ state[u].cards_total_length = Len(state[u].cards_json.items)

\* the user stands on the last of three cards after a free-text message
\* that brought no new list
C15_Witness ==
    /\ ev.handler = "chat"
    /\ ev.result = "ok"
    /\ Len(state[ev.user].cards_json.items) = 3
    /\ state[ev.user].cards_current_page = 2

\* C16: cards_total_length is the number of cards when the cards are
\* present and the sentinel -1 when they are absent
C16_TotalOrSentinel ==
    \A u \in Users :
        IF state[u].cards_json.none
        THEN state[u].cards_total_length = -1
        ELSE state[u].cards_total_length = Len(state[u].cards_json.items)

\* the rows the keyboard of page `page` of `total` cards is to have
ShapeRows(page, total) ==
    << <<IF page > 0 THEN PreviousButton ELSE InactiveButton,
         AcceptButton,
         IF page < total - 1 THEN NextButton ELSE InactiveButton>>,
       <<ExitButton>> >>

\* the calls of the last event that attach a keyboard to a card: the send of
\* a first page and the edit of a pagination callback
CardCalls ==
    {i \in 1..Len(out) :
        \/ out[i].op \in SendOps /\ out[i].content.tag = "card"
        \/ out[i].op = "edit_markup" /\ ev.handler \in PaginationCallbacks}

\* C17 as claimed: every keyboard attached to a card, by the chat flow or by
\* a pagination callback, has the three-button navigation row of its page
\* and the exit row
C17_KeyboardShapeAlways ==
    \A i \in CardCalls :
        out[i].markup.rows = ShapeRows(state[ev.user].cards_current_page,
                                       state[ev.user].cards_total_length)

\* C17 amended: every keyboard a pagination callback attaches has the
\* three-button navigation row of its page and the exit row; so has the
\* first page the chat flow sends when there is more than one card; the
\* first page of a single card carries the exit row only
C17_KeyboardShape ==
    \A i \in CardCalls :
        out[i].markup.rows =
            IF ev.handler = "chat" /\ state[ev.user].cards_total_length = 1
            THEN << <<ExitButton>> >>
            ELSE ShapeRows(state[ev.user].cards_current_page,
                           state[ev.user].cards_total_length)

\* a pagination callback put the keyboard of the middle page
C17_Witness ==
    /\ ev.handler = "next_callback"
    /\ state[ev.user].cards_current_page = 1
    /\ state[ev.user].cards_total_length = 3
    /\ CardCalls # {}
    /\ \A i \in CardCalls :
          out[i].markup.rows[1] = <<PreviousButton, AcceptButton, NextButton>>

\* C18: a callback event is checked against the dedup cache first, then
\* against the specialized callback table and only then against the handler
\* table; it reaches at most one handler, the specialized one when a flow
\* bears the same name, and an unmatched payload reaches no handler, changes
\* no user state and sends nothing
C18_CallbackDispatchOrder ==
    [][ev'.kind = "callback"
          => LET p == ev'.text
                 key == <<ev'.user, p>>
             IN /\ ev'.handler \in {"none", p}
                /\ (/\ KeyedEvent(ev')
                    /\ key \in DOMAIN processed_callbacks
                    /\ ev'.ts - processed_callbacks[key] < 2000)
                     => ev'.handler = "none" /\ state' = state /\ out' = <<>>
                /\ (ev'.result \notin {"duplicate", "no_chat_id", "no_payload", "crash"}
                    /\ (p \in SpecialCallbacks \/ InHandlers(p)))
                     => ev'.handler = p
                /\ (p \in SpecialCallbacks /\ ev'.handler = p)
                     => \A i \in 1..Len(out') :
                           ~(out'[i].op \in SendOps /\ out'[i].content.tag = p)
                /\ (p \notin SpecialCallbacks /\ ~InHandlers(p))
                     => ev'.handler = "none" /\ state' = state /\ out' = <<>>]_vars

\* the hide callback ran on a payload that is also the name of a flow
C18_Witness ==
    /\ ev.kind = "callback"
    /\ ev.text = "hide_callback"
    /\ ev.text \in FlowNames
    /\ ev.handler = "hide_callback"
    /\ Len(out) = 1
    /\ out[1].op = "delete_message"

\* texts that begin with "/" and are not in the command table
UnknownCommands == {"/help"}

C20_FreeTextDispatch ==
    [][(ev'.kind = "message" /\ ev'.text \notin CommandTexts \cup UnknownCommands)
          => IF ev'.text \in FlowNames
             THEN ev'.handler = ev'.text /\ ~ai_request'.called
             ELSE ev'.handler = "chat" /\ ai_request'.called]_vars

\* a text that differs from a flow name by its case went to the chat handler
C20_Witness ==
    /\ ev.kind = "message"
    /\ ev.text = "info"
    /\ ev.handler = "chat"
    /\ ai_request.called

(***************************************************************************)
(* The chat flow (ChatHandler).                                            *)
(***************************************************************************)
\* C21 as stated: a free-text message that reaches the chat handler while the
\* top of the stack is no managed flow pushes the marker and sets the search
\* type to "questions"; with a managed flow on top the stack and the search
\* type stay as they are
C21_MarkerPushedOutsideManaged ==
    [][\A u \in Users :
          Reached(u, "chat")
          => IF TopFlow(u) \notin ManagedFlows
             THEN /\ state'[u].flow_stack = Append(state[u].flow_stack, EMPTY_STR)
                  /\ state'[u].search_type = "questions"
             ELSE /\ state'[u].flow_stack = state[u].flow_stack
                  /\ state'[u].search_type = state[u].search_type]_vars

\* C21: the marker is pushed, with the search type set to "questions" and
\* pagination switched off, when the top of the stack is neither a managed
\* flow nor the marker itself; with a managed flow or the marker on top the
\* stack, the search type and the pagination flag stay as they are
C21_MarkerPushedOnce ==
    [][\A u \in Users :
          Reached(u, "chat")
          => IF TopFlow(u) \notin ManagedFlows /\ TopFlow(u) # EMPTY_STR
             THEN /\ state'[u].flow_stack = Append(state[u].flow_stack, EMPTY_STR)
                  /\ state'[u].search_type = "questions"
                  /\ ~state'[u].use_pagination
             ELSE /\ state'[u].flow_stack = state[u].flow_stack
                  /\ state'[u].search_type = state[u].search_type
                  /\ state'[u].use_pagination = state[u].use_pagination]_vars

\* a free-text message pushed the marker on top of an extended static flow
C21_Witness ==
    /\ ev.handler = "chat"
    /\ state[ev.user].flow_stack = <<"main", "Catalog", EMPTY_STR>>
    /\ state[ev.user].search_type = "questions"

\* C22: the request of the chat handler is ("gpt", "faq") for the search
\* type "questions", ("semfuz", "cmp") for "companies", ("semfuz", "prdcts")
\* for "products" and ("gpt", "faq") for any other value, with top_k 10 when
\* pagination is on and 1 otherwise
C22_RequestShape ==
    [][\A u \in Users :
          Reached(u, "chat")
          => LET st == state'[u]
             IN /\ ai_request'.called
                /\ <<ai_request'.search_type, ai_request'.database_name>> =
                      CASE st.search_type = "questions" -> <<"gpt", "faq">>
                        [] st.search_type = "companies" -> <<"semfuz", "cmp">>
                        [] st.search_type = "products" -> <<"semfuz", "prdcts">>
                        [] OTHER -> <<"gpt", "faq">>
                /\ ai_request'.top_k = IF st.use_pagination THEN 10 ELSE 1]_vars

\* a request was sent from inside the managed flow that searches companies
C22_Witness ==
    /\ ev.handler = "chat"
    /\ state[ev.user].search_type = "companies"
    /\ ai_request.database_name = "cmp"
    /\ ai_request.top_k = 1

\* the lists of at least one record a response carries
ListsCarried(response) ==
    {c \in {response.cards, response.product_cards} : Truthy(c)}

\* the last event sent a message of this content
Sent(content) ==
    \E i \in 1..Len(out) : out[i].op \in SendOps /\ out[i].content = content

\* C23: a free-text message sent inside a managed flow with pagination on,
\* answered with a list of n >= 1 records under cards or product_cards,
\* stores that list with total n and page 0 and sends the first card under
\* the header "1 of n"; an answer with neither an answer text nor a list
\* sends the not-found message
C23_PaginationInitialised ==
    [][\A u \in Users :
          (Reached(u, "chat") /\ ai_request'.answered)
          => LET response == ai_request'.response
                 lists == ListsCarried(response)
             IN /\ (TopFlow(u) \in ManagedFlows /\ state[u].use_pagination
                       /\ lists # {})
                    => \E c \in lists :
                          /\ state'[u].cards_json = c
                          /\ state'[u].cards_total_length = Len(c.items)
                          /\ state'[u].cards_current_page = 0
                          /\ Sent([tag |-> "card", card |-> c.items[1],
                                   page |-> 1, total |-> Len(c.items)])'
                /\ (~AnswerTruthy(response.answer) /\ lists = {})
                    => Sent(Content("query_not_found"))']_vars

\* the calls of the last event that clear the keyboard of a message or
\* delete it
ClearCalls == {i \in 1..Len(out) : out[i].op \in {"edit_markup", "delete_message"}}

\* the calls of the last event that send a new message
SendCalls == {i \in 1..Len(out) : out[i].op \in SendOps}

\* the user state holds the id of a callback message
Tracked(st) == st.callback_message_id \notin {None, EMPTY_STR}

\* C24: in every free-text chat event the call that clears or deletes the
\* tracked callback message comes before the call that sends the reply; it
\* is a delete exactly when the deletion flag is set and a keyboard edit
\* otherwise, it targets the tracked message id, and there is no such call
\* when no callback message is tracked
C24_ClearBeforeSend ==
    [][\A u \in Users :
          Reached(u, "chat")
          => /\ \A i \in ClearCalls' :
                   /\ \A j \in SendCalls' : i < j
                   /\ out'[i].message_id = state[u].callback_message_id
                   /\ (out'[i].op = "delete_message")
                         <=> state[u].callback_message_need_to_delete
             /\ (Tracked(state[u]) /\ SendCalls' # {}) => ClearCalls' # {}
             /\ ~Tracked(state[u]) => ClearCalls' = {}]_vars

\* C25: after a chat reply is sent, the tracked callback message is the
\* message the send returned (none when the platform's answer carries no
\* message id), no markup is stored for it and its deletion flag is off; a
\* previously tracked message of another id is tracked no longer
C25_ReplyTracked ==
    [][\A u \in Users :
          Reached(u, "chat")
          => \A j \in SendCalls' :
                out'[j].ok
                => /\ state'[u].callback_message_id = out'[j].message_id
                   /\ state'[u].callback_message_inline_markup = NoMarkup
                   /\ ~state'[u].callback_message_need_to_delete
                   /\ state[u].callback_message_id # out'[j].message_id
                        => state'[u].callback_message_id
                             # state[u].callback_message_id]_vars

\* the reply "m2" replaced the tracked message "m1", whose keyboard was
\* cleared first
C25_Witness ==
    /\ ev.handler = "chat"
    /\ state[ev.user].callback_message_id = "m2"
    /\ \E i \in ClearCalls : out[i].message_id = "m1"
    /\ \E j \in SendCalls : out[j].ok /\ out[j].message_id = "m2"

\* C26: when the call that clears or deletes the tracked message fails, the
\* chat handler still sends its reply after it and ends normally, and the
\* state it leaves is persisted: the failed message is tracked no longer,
\* the reply is when its send succeeded
C26_FailedClearKeepsReply ==
    [][\A u \in Users :
          (Reached(u, "chat") /\ \E i \in ClearCalls' : ~out'[i].ok)
          => /\ ev'.result = "ok"
             /\ SendCalls' # {}
             /\ \A j \in SendCalls' :
                   /\ \A i \in ClearCalls' : i < j
                   /\ state'[u].callback_message_id =
                        IF out'[j].ok THEN out'[j].message_id ELSE None]_vars

\* the clear of the tracked message "m1" failed and the reply was delivered
C26_Witness ==
    /\ ev.handler = "chat"
    /\ \E i \in ClearCalls : ~out[i].ok /\ out[i].message_id = "m1"
    /\ \E j \in SendCalls : out[j].ok
    /\ Tracked(state[ev.user])

\* C27: when the call of the AI server fails, the chat handler goes on and
\* the user is sent the not-found message
C27_FailedSearchStillReplies ==
    [][\A u \in Users :
          (Reached(u, "chat") /\ ~ai_request'.answered)
          => Sent(Content("query_not_found"))']_vars

(***************************************************************************)
(* Failures of the platform calls, /start, and the users' isolation.       *)
(***************************************************************************)
\* the fields of a user state but those of the tracked callback message
Mutations(st) ==
    <<st.flow_stack, st.use_pagination, st.search_type, st.cards_json,
      st.cards_current_page, st.cards_total_length>>

\* the state the handler of the event of this step leaves when every
\* platform call of it succeeds
DeliveredState(u) ==
    IF ev'.handler = "chat"
    THEN ChatHandler(state[u], ai_request'.response, ai_request'.answered,
                     TRUE, "m1").st
    ELSE IF ev'.handler \in SpecialCallbacks
    THEN CallCallbackHandler(ev'.handler, state[u], is_vip[u], "m1", TRUE, "m1").st
    ELSE CallHandler(ev'.handler, state[u], is_vip[u], "m1").st

\* C28: when a send or an edit of a handler fails (a command, a flow
\* handler, the exit callback, a pagination callback, the chat handler), the
\* state persisted for the user holds every mutation the handler makes when
\* the call succeeds
C28_FailedSendKeepsMutations ==
    [][\A u \in Users :
          (ev'.user = u /\ ev'.handler # "none"
             /\ \E i \in 1..Len(out') : ~out'[i].ok)
          => Mutations(state'[u]) = Mutations(DeliveredState(u))]_vars

\* the exit callback popped the stack and the send of the menu failed
C28_Witness ==
    /\ ev.handler = "exit_callback"
    /\ ev.result = "exception"
    /\ \E i \in 1..Len(out) : out[i].op = "send_message" /\ ~out[i].ok
    /\ state[ev.user].flow_stack = <<"main", "Catalog">>

\* the rows of the main menu: one button per root flow the user may see,
\* in configuration order
ExpectedMainMenu(vip) ==
    LET shown == SelectSeq(RootFlows, LAMBDA f : vip \/ ~FlowPrivileged(f))
    IN [i \in 1..Len(shown) |-> <<[text |-> shown[i], payload |-> shown[i]]>>]

\* C29: after /start, whatever the state before, the stack is <<"main">>,
\* pagination is off, the search type is empty and no cards are stored; the
\* keyboard sent is the main menu in configuration order, with every button
\* for a VIP user and the buttons that are not privileged for any other
C29_StartResets ==
    [][\A u \in Users :
          Reached(u, "/start")
          => /\ state'[u].flow_stack = <<"main">>
             /\ ~state'[u].use_pagination
             /\ state'[u].search_type = ""
             /\ state'[u].cards_json = NoCards
             /\ Len(out') = 1
             /\ out'[1].op = "send_message"
             /\ out'[1].markup.present
             /\ out'[1].markup.rows = ExpectedMainMenu(is_vip[u])]_vars

\* /start was sent by a user who is no VIP: the menu lacks the privileged
\* flow "Ask"
C29_Witness ==
    /\ ev.handler = "/start"
    /\ ~is_vip[ev.user]
    /\ Len(out) = 1
    /\ out[1].markup.rows = << <<[text |-> "Info", payload |-> "Info"]>>,
                               <<[text |-> "Catalog", payload |-> "Catalog"]>>,
                               <<[text |-> "hide_callback",
                                  payload |-> "hide_callback"]>> >>

\* C30: under every interleaving of the deliveries, a step of a delivery of
\* one user changes the state of no other user, the VIP flag of nobody and
\* the position of no other delivery; the dedup cache is all it shares with
\* the deliveries of other users
C30_UsersIsolated ==
    [][\A d \in Deliveries :
          tasks'[d] # tasks[d]
          => /\ \A v \in Users \ {DeliveryUser(d)} : state'[v] = state[v]
             /\ \A e \in Deliveries \ {d} : tasks'[e] = tasks[e]
             /\ is_vip' = is_vip]_vars

\* the state of bob was written while a delivery of alice was in flight,
\* both recorded in the dedup cache
C30_Witness ==
    /\ tasks["a1"].pc = "handled"
    /\ tasks["b1"].pc = "done"
    /\ state["bob"].flow_stack = <<"main", "Catalog">>
    /\ state["alice"].flow_stack = <<"main">>
    /\ \E k1, k2 \in DOMAIN processed_callbacks : k1[1] = "alice" /\ k2[1] = "bob"

(***************************************************************************)
(* Startup: references and the flow tree walk.                             *)
(***************************************************************************)
\* the content of the start command in a document
StartContent(document) == document.d[StrCommands].d[StrStart].d[StrContent]

\* the dict under these keys of a dict value has the key "content"
HasContent(value, keys) ==
    /\ Descend(value, keys).kind = "dict"
    /\ StrContent \in DOMAIN Descend(value, keys).d

\* C31 as stated: the string "@buttons.exit.content" resolves to the content
\* of the exit entry of the buttons section
C31_ButtonsPrefixResolves ==
    (/\ startup.pc # "init"
     /\ StartContent(startup.document).s =
          <<"@", "b", "u", "t", "t", "o", "n", "s", ".", "e", "x", "i", "t", ".",
            "c", "o", "n", "t", "e", "n", "t">>
     /\ HasContent(startup.document, <<StrButtons, StrExit>>))
    => /\ startup.pc # "aborted"
       /\ StartContent(startup.config) =
            startup.document.d[StrButtons].d[StrExit].d[StrContent]

\* C31: the first part of a reference is a key of the buttons section:
\* "@exit.content" resolves to the content of the exit entry of the buttons
\* section; "@buttons.exit.content" resolves to the content of the exit field
\* of a button named "buttons", and aborts the load when the buttons section
\* has no such entry
C31_ReferenceResolves ==
    startup.pc # "init"
    => /\ (/\ StartContent(startup.document).s =
                <<"@", "e", "x", "i", "t", ".", "c", "o", "n", "t", "e", "n", "t">>
           /\ HasContent(startup.document, <<StrButtons, StrExit>>))
          => /\ startup.pc # "aborted"
             /\ StartContent(startup.config) =
                  startup.document.d[StrButtons].d[StrExit].d[StrContent]
       /\ StartContent(startup.document).s =
             <<"@", "b", "u", "t", "t", "o", "n", "s", ".", "e", "x", "i", "t", ".",
               "c", "o", "n", "t", "e", "n", "t">>
          => IF HasContent(startup.document, <<StrButtons, StrButtons, StrExit>>)
             THEN /\ startup.pc # "aborted"
                  /\ StartContent(startup.config) =
                       startup.document.d[StrButtons].d[StrButtons].d[StrExit].d[StrContent]
             ELSE startup.pc = "aborted"

\* the reference "@exit.content" was resolved to the content of the exit
\* button
C31_Witness ==
    /\ startup.pc = "loaded"
    /\ StartContent(startup.document).s =
         <<"@", "e", "x", "i", "t", ".", "c", "o", "n", "t", "e", "n", "t">>
    /\ StartContent(startup.config) = StrValue(<<"b", "y", "e">>)

\* the flows of a tree, each with its type and the flow it is a child of,
\* "main" for a flow of the root list
RECURSIVE NodesOf(_, _)
NodesOf(flows, parent) ==
    UNION {{[name |-> flows[i].name, type |-> flows[i].type, parent |-> parent]}
             \cup (IF flows[i].has_flows THEN NodesOf(flows[i].flows, flows[i].name)
                   ELSE {}) : i \in 1..Len(flows)}

\* the flow of the tree a registered handler belongs to
NodeOf(handler) ==
    CHOOSE n \in NodesOf(startup.flows, "main") : n.name = handler.name

\* every flow of a known type has one handler, and a parent's children are
\* registered before the parent, each with the parent's name
WalkOrder ==
    /\ \A n \in NodesOf(startup.flows, "main") :
          n.type \in {"static", "extended_static", "managed"}
          <=> \E i \in 1..Len(startup.handlers) : startup.handlers[i].name = n.name
    /\ \A i, j \in 1..Len(startup.handlers) :
          /\ startup.handlers[i].name = startup.handlers[j].name => i = j
          /\ NodeOf(startup.handlers[j]).parent = startup.handlers[i].name => j < i
    /\ \A i \in 1..Len(startup.handlers) :
          startup.handlers[i].parent_name = NodeOf(startup.handlers[i]).parent

\* C32 as stated: a registered flow is nested, with the name of its parent,
\* exactly when it is a child of another flow; a root flow of any kind is not
\* nested and has the parent name "main"; children are registered before
\* their parent
C32_NestedIffChild ==
    startup.pc = "registered"
    => /\ WalkOrder
       /\ \A i \in 1..Len(startup.handlers) :
             startup.handlers[i].is_nested
             <=> NodeOf(startup.handlers[i]).parent # "main"

\* C32: a registered flow is nested exactly when it is a child of another
\* flow or a managed flow; its parent name is the name of its parent, "main"
\* for a root flow of any kind, a managed one included; children are
\* registered before their parent; the handlers of the configured tree carry
\* the flags the flow handlers are run with
C32_NestedIffChildOrManaged ==
    startup.pc = "registered"
    => /\ WalkOrder
       /\ \A i \in 1..Len(Started.handlers) :
             /\ Started.handlers[i].is_nested = IsNested(Started.handlers[i].name)
             /\ Started.handlers[i].parent_name = ParentName(Started.handlers[i].name)
       /\ \A i \in 1..Len(startup.handlers) :
             startup.handlers[i].is_nested
             <=> \/ NodeOf(startup.handlers[i]).parent # "main"
                 \/ NodeOf(startup.handlers[i]).type = "managed"

\* the walk registered a nested static flow before its parent and a root
\* managed flow
C32_Witness ==
    /\ startup.pc = "registered"
    /\ \E i, j \in 1..Len(startup.handlers) :
          /\ i < j
          /\ startup.handlers[i] = [name |-> "Leaf", type |-> "static",
                                    is_nested |-> TRUE, parent_name |-> "Sub"]
          /\ startup.handlers[j].name = "Sub"
    /\ \E i \in 1..Len(startup.handlers) :
          startup.handlers[i] = [name |-> "Ask", type |-> "managed",
                                 is_nested |-> TRUE, parent_name |-> "main"]

(***************************************************************************)
(* Frames and invariants of the user state.                                *)
(***************************************************************************)
\* C33: the accept and the inactive callback change no field of the user
\* state; a pagination callback received while the cards are absent or an
\* empty list changes no field and makes no platform call
C33_PaginationFrame ==
    [][\A u \in Users :
          (ev'.user = u /\ ev'.handler \in PaginationCallbacks)
          => /\ ev'.handler \in {"accept_callback", "inactive_callback"}
                  => state'[u] = state[u]
             /\ ~Truthy(state[u].cards_json)
                  => state'[u] = state[u] /\ out' = <<>>]_vars

\* the next callback arrived while an empty card list was stored
C33_Witness ==
    /\ ev.handler = "next_callback"
    /\ state[ev.user].cards_json = CardsOf(<<>>)
    /\ out = <<>>

\* C34: the flow stack is a path of the flow tree: every element after the
\* first is listed in the menu of the element below it, or is the free-text
\* marker on top of the stack; no flow name occurs twice in a row
C34_StackIsPath ==
    \A u \in Users :
       LET flow_stack == state[u].flow_stack
       IN \A i \in 1..(Len(flow_stack) - 1) :
             /\ \/ flow_stack[i + 1] \in ButtonNames(flow_stack[i])
                \/ flow_stack[i + 1] = EMPTY_STR /\ i + 1 = Len(flow_stack)
             /\ flow_stack[i + 1] # flow_stack[i]

\* C35: whenever a managed flow is on top of a user's stack, the search type
\* and the pagination flag of the user are those configured for the flow
C35_ManagedContext ==
    \A u \in Users :
       TopFlow(u) \in ManagedFlows
       => /\ state[u].search_type = FlowSearchType(TopFlow(u))
          /\ state[u].use_pagination = FlowUsePagination(TopFlow(u))

\* the free-text marker occurs in the stack of a user on top only
MarkerOnTopOnly ==
    \A u \in Users :
       \A i \in 1..Len(state[u].flow_stack) :
          state[u].flow_stack[i] = EMPTY_STR => i = Len(state[u].flow_stack)

\* C36: the free-text marker occurs at most once in a flow stack and only on
\* top; a free-text message that finds the marker on top pushes no second
\* one, and no flow handler pushes its flow on top of the marker
C36_MarkerPlacement ==
    /\ []MarkerOnTopOnly
    /\ [][\A u \in Users :
             (ev'.user = u /\ TopFlow(u) = EMPTY_STR)
             => /\ ev'.handler = "chat" => state'[u].flow_stack = state[u].flow_stack
                /\ ev'.handler \in FlowNames
                     => \/ state'[u].flow_stack = state[u].flow_stack
                        \/ EMPTY_STR \notin {state'[u].flow_stack[i] :
                                               i \in 1..Len(state'[u].flow_stack)}]_vars

\* a nested flow was refused while the marker was on top of the stack
C36_Witness ==
    /\ ev.handler = "Sub"
    /\ ev.result = "flow_invalid"
    /\ state[ev.user].flow_stack = <<"main", "Catalog", EMPTY_STR>>

\* C37: a chat reply with the not-found message carries the keyboard with
\* the exit button alone and leaves no card list stored
C37_NotFoundWithoutPagination ==
    [][\A u \in Users :
          (Reached(u, "chat") /\ Sent(Content("query_not_found"))')
          => /\ \A j \in SendCalls' : out'[j].markup.rows = << <<ExitButton>> >>
             /\ ~Truthy(state'[u].cards_json)]_vars

\* C38: after a chat event the AI server answered, whatever the response,
\* the cards stored are absent or a list that is not empty, and the event
\* ends with a reply sent, not with an error
C38_CardsNeverEmpty ==
    [][\A u \in Users :
          (Reached(u, "chat") /\ ai_request'.answered)
          => /\ state'[u].cards_json.none \/ Len(state'[u].cards_json.items) > 0
             /\ SendCalls' # {}
             /\ ev'.result = "ok"]_vars

\* C39: a dropped duplicate leaves the dedup cache as it was: its timestamp
\* is not recorded and nothing is pruned; so after a duplicate dropped at t1
\* against the entry t0 of its key, an event of the key at t2 with
\* t2 - t0 >= 2000 is processed and recorded, also when t2 - t1 < 2000
C39_WindowAnchoredAtProcessed ==
    [][\A u \in Users, payload \in CallbackPayloads :
          (KeyedEvent(ev') /\ ev'.user = u /\ ev'.text = payload)
          => /\ ev'.result = "duplicate"
                  => processed_callbacks' = processed_callbacks
             /\ (/\ KeyedEvent(ev) /\ ev.user = u /\ ev.text = payload
                 /\ ev.result = "duplicate"
                 /\ <<u, payload>> \in DOMAIN processed_callbacks
                 /\ ev.ts - processed_callbacks[<<u, payload>>] < 2000
                 /\ ev'.ts - processed_callbacks[<<u, payload>>] >= 2000
                 /\ ev'.ts - ev.ts < 2000)
                => /\ ev'.result # "duplicate"
                   /\ processed_callbacks'[<<u, payload>>] = ev'.ts]_vars

\* a duplicate at 1000 was dropped and the entry of its key is still the
\* 0 of the processed event
C39_Witness ==
    /\ KeyedEvent(ev)
    /\ ev.result = "duplicate"
    /\ ev.ts = 1000
    /\ processed_callbacks[<<ev.user, ev.text>>] = 0

====
